---- MODULE Spec2Model ----
\* A model of the class-file decoder of src/main.py: the byte cursor
\* (JVMClassFile), the constant-pool entry reader (JVMConstant), the attribute
\* readers (JVMAttribute, JVMCodeAttr), the member readers (JVMField,
\* JVMMethod) and the top-level pass of JVMClass.__init__.
\*
\* A file is a sequence of bytes (0..255).  The decoder is a state machine whose
\* control state is the position in JVMClass.__init__ (pc) together with the
\* stack of constructors that are still running (stack).
EXTENDS Integers, Sequences, FiniteSets, TLC

VARIABLES
    full,     \* the bytes of the class file the decode was first asked for
    input,    \* the bytes of the file klassFile has open (full, or a prefix of it)
    pos,      \* klassFile's cursor: the number of bytes consumed so far
    pc,       \* position in JVMClass.__init__, "done" or "failed"
    err,      \* the exception that ended the decode ("" while there is none)
    klass,    \* the fields of the JVMClass instance
    stack     \* the JVMField / JVMMethod / JVMAttribute constructors in progress

vars == <<full, input, pos, pc, err, klass, stack>>

-----------------------------------------------------------------------------
\* Bounds of the explored inputs.

\* longest opaque attribute payload
MaxPayload == 1
\* largest count of a counted sequence (interfaces, fields, methods,
\* attributes, exception records)
MaxCount == 2
\* deepest nesting of a Code attribute inside the attributes of a Code attribute
MaxDepth == 1

-----------------------------------------------------------------------------
\* Program constants.

\* 0xCAFEBABE as the two 16-bit halves of a 32-bit value.
MAGIC == [hi |-> 51966, lo |-> 47806]

CONSTANT_Class == 7
CONSTANT_Fieldref == 9
CONSTANT_Methodref == 10
CONSTANT_InterfaceMethodref == 11
CONSTANT_String == 8
CONSTANT_Integer == 3
CONSTANT_Float == 4
CONSTANT_Long == 5
CONSTANT_Double == 6
CONSTANT_NameAndType == 12
CONSTANT_Utf8 == 1
CONSTANT_MethodHandle == 15
CONSTANT_MethodType == 16
CONSTANT_InvokeDynamic == 18

KnownTags ==
    { CONSTANT_Class, CONSTANT_Fieldref, CONSTANT_Methodref,
      CONSTANT_InterfaceMethodref, CONSTANT_String, CONSTANT_Integer,
      CONSTANT_Float, CONSTANT_Long, CONSTANT_Double, CONSTANT_NameAndType,
      CONSTANT_Utf8, CONSTANT_MethodHandle, CONSTANT_MethodType,
      CONSTANT_InvokeDynamic }

\* The text "Code" (line 118), as code points.
CodeText == <<67, 111, 100, 101>>

-----------------------------------------------------------------------------
\* The byte cursor: JVMClassFile.U1 / U2 / U4 / U.

\* Body of the value of v: v is evaluated once, however often Body uses it.
Bind(v, Body(_)) == CHOOSE y \in { Body(x) : x \in {v} } : TRUE

\* klassFile.read(n) with the cursor at p: the next n bytes, or all that is
\* left when fewer than n remain.
Read(p, n) ==
    SubSeq(input, p + 1, IF n >= Len(input) - p THEN Len(input) ELSE p + n)

\* A cursor that read() leaves where it was: what DecodeStops rules out.
TellStuck(p, bs) == p

\* The cursor after read() returned bs.
Tell(p, bs) == p + Len(bs)

\* An unpack that accepts a short buffer: what TruncationFails rules out.
UnpacksShort(bs, n) == TRUE

\* struct.unpack_from raises struct.error unless the buffer holds n bytes.
Unpacks(bs, n) == Len(bs) >= n

\* The big-endian unsigned value of bs (formats ">B", ">H", ">I").
RECURSIVE BigEndianOf(_, _)
BigEndianOf(bs, k) ==
    IF k = 0 THEN 0 ELSE BigEndianOf(bs, k - 1) * 256 + bs[k]

BigEndian(bs) == BigEndianOf(bs, Len(bs))

\* A 32-bit value (format ">I") is held as its two 16-bit halves: hi * 65536
\* + lo.
Wide(bs) ==
    LET k == IF Len(bs) > 2 THEN Len(bs) - 2 ELSE 0
    IN  [hi |-> BigEndian(SubSeq(bs, 1, k)),
         lo |-> BigEndian(SubSeq(bs, k + 1, Len(bs)))]

\* A 32-bit value as a number of bytes to read.  No file holds 2^31 bytes, so
\* a request of 2^31 bytes or more reads what is left, like one of 2^31 - 1.
AsSize(w) == IF w.hi >= 32768 THEN 2147483647 ELSE w.hi * 65536 + w.lo

\* U1, U2, U4: n = 1, 2, 4.
UInt(p, n) ==
    Bind(Read(p, n), LAMBDA bs :
        [ok |-> Unpacks(bs, n),
         val |-> IF n = 4 THEN Wide(bs) ELSE BigEndian(bs),
         pos |-> Tell(p, bs)])

U1(p) == UInt(p, 1)
U2(p) == UInt(p, 2)
U4(p) == UInt(p, 4)

\* U(n): the tuple of the next n bytes.
U(p, n) ==
    Bind(Read(p, n), LAMBDA bs :
        [ok |-> Unpacks(bs, n), val |-> bs, pos |-> Tell(p, bs)])

\* Consecutive U1/U2/U4 reads of the given widths, stopping at the first that
\* raises.
RECURSIVE ReadFields(_, _)
ReadFields(p, widths) ==
    IF widths = <<>> THEN [ok |-> TRUE, vals |-> <<>>, pos |-> p]
    ELSE Bind(UInt(p, Head(widths)), LAMBDA r :
             IF ~r.ok THEN [ok |-> FALSE, vals |-> <<>>, pos |-> r.pos]
             ELSE Bind(ReadFields(r.pos, Tail(widths)), LAMBDA rest :
                      [ok |-> rest.ok, vals |-> <<r.val>> \o rest.vals,
                       pos |-> rest.pos]))

\* A loop that stops one element early: what CountsMatchFromOne rules out.
RangeLenOneLess(n) == IF n > 1 THEN n - 1 ELSE 0

\* len(range(n)): the number of iterations of `for _ in range(n)`.
RangeLen(n) == IF n > 0 THEN n ELSE 0

\* list[i] with Python's indexing: a negative i counts from the end.
PyIndex(list, i) ==
    LET j == IF i < 0 THEN i + Len(list) ELSE i
    IN  IF j < 0 \/ j >= Len(list)
        THEN [ok |-> FALSE, val |-> <<>>]
        ELSE [ok |-> TRUE, val |-> list[j + 1]]

-----------------------------------------------------------------------------
\* bytes.decode('utf-8'): strict UTF-8, giving the code points of the text.

\* Length of the sequence a lead byte starts; 0 for a byte that starts none.
Utf8Width(b) ==
    IF b < 128 THEN 1
    ELSE IF b >= 194 /\ b <= 223 THEN 2
    ELSE IF b >= 224 /\ b <= 239 THEN 3
    ELSE IF b >= 240 /\ b <= 244 THEN 4
    ELSE 0

\* The second byte's range depends on the lead (no overlong forms, no
\* surrogates, nothing above U+10FFFF).
Utf8SecondOk(lead, b) ==
    IF lead = 224 THEN b >= 160 /\ b <= 191
    ELSE IF lead = 237 THEN b >= 128 /\ b <= 159
    ELSE IF lead = 240 THEN b >= 144 /\ b <= 191
    ELSE IF lead = 244 THEN b >= 128 /\ b <= 143
    ELSE b >= 128 /\ b <= 191

Utf8TailOk(bs, i, n) ==
    /\ i + n - 1 <= Len(bs)
    /\ n >= 2 => Utf8SecondOk(bs[i], bs[i + 1])
    /\ \A k \in 2..(n - 1) : bs[i + k] >= 128 /\ bs[i + k] <= 191

Utf8CodePoint(bs, i, n) ==
    IF n = 1 THEN bs[i]
    ELSE IF n = 2 THEN (bs[i] - 192) * 64 + (bs[i + 1] - 128)
    ELSE IF n = 3 THEN (bs[i] - 224) * 4096 + (bs[i + 1] - 128) * 64
                        + (bs[i + 2] - 128)
    ELSE (bs[i] - 240) * 262144 + (bs[i + 1] - 128) * 4096
         + (bs[i + 2] - 128) * 64 + (bs[i + 3] - 128)

RECURSIVE DecodeFrom(_, _)
DecodeFrom(bs, i) ==
    IF i > Len(bs) THEN [ok |-> TRUE, text |-> <<>>]
    ELSE Bind(Utf8Width(bs[i]), LAMBDA n :
             IF n = 0 \/ ~Utf8TailOk(bs, i, n)
             THEN [ok |-> FALSE, text |-> <<>>]
             ELSE Bind(i + n, LAMBDA j :
                  Bind(DecodeFrom(bs, j), LAMBDA rest :
                      [ok |-> rest.ok,
                       text |-> <<Utf8CodePoint(bs, i, n)>> \o rest.text])))

DecodeUtf8(bs) == Bind(bs, LAMBDA raw : DecodeFrom(raw, 1))

-----------------------------------------------------------------------------
\* JVMConstant.

\* The widths of the fields each case of the match reads after the tag.  No
\* case matches any other tag: nothing more is read.
FieldWidths(tag) ==
    IF tag = CONSTANT_Class THEN <<2>>
    ELSE IF tag \in {CONSTANT_Fieldref, CONSTANT_Methodref,
                     CONSTANT_InterfaceMethodref} THEN <<2, 2>>
    ELSE IF tag = CONSTANT_String THEN <<2>>
    ELSE IF tag = CONSTANT_Integer THEN <<4>>
    ELSE IF tag = CONSTANT_Float THEN <<4>>
    ELSE IF tag \in {CONSTANT_Long, CONSTANT_Double} THEN <<4, 4>>
    ELSE IF tag = CONSTANT_NameAndType THEN <<2, 2>>
    ELSE IF tag = CONSTANT_MethodHandle THEN <<1, 2>>
    ELSE IF tag = CONSTANT_MethodType THEN <<2>>
    ELSE IF tag = CONSTANT_InvokeDynamic THEN <<2, 2>>
    ELSE <<>>

NoEntry == [tag |-> 0, vals |-> <<>>, bytes |-> <<>>]

\* JVMConstant.__init__ with the cursor at p.  An entry is its tag, the numeric
\* fields in the order read (vals) and, for a Utf8 entry, the decoded text
\* (bytes).
ParseConstant(p) ==
    Bind(U1(p), LAMBDA t :
      IF ~t.ok
      THEN [ok |-> FALSE, err |-> "struct.error", pos |-> t.pos, entry |-> NoEntry]
      ELSE IF t.val = CONSTANT_Utf8
      THEN Bind(U2(t.pos), LAMBDA l :
             IF ~l.ok
             THEN [ok |-> FALSE, err |-> "struct.error", pos |-> l.pos,
                   entry |-> NoEntry]
             ELSE Bind(U(l.pos, l.val), LAMBDA b :
                    IF ~b.ok
                    THEN [ok |-> FALSE, err |-> "struct.error", pos |-> b.pos,
                          entry |-> NoEntry]
                    ELSE Bind(DecodeUtf8(b.val), LAMBDA d :
                           IF ~d.ok
                           THEN [ok |-> FALSE, err |-> "UnicodeDecodeError",
                                 pos |-> b.pos, entry |-> NoEntry]
                           ELSE [ok |-> TRUE, err |-> "", pos |-> b.pos,
                                 entry |-> [tag |-> t.val, vals |-> <<l.val>>,
                                            bytes |-> d.text]])))
      ELSE Bind(ReadFields(t.pos, FieldWidths(t.val)), LAMBDA r :
             IF ~r.ok
             THEN [ok |-> FALSE, err |-> "struct.error", pos |-> r.pos,
                   entry |-> NoEntry]
             ELSE [ok |-> TRUE, err |-> "", pos |-> r.pos,
                   entry |-> [tag |-> t.val, vals |-> r.vals, bytes |-> <<>>]]))

\* The decimal digits of n, as code points.
RECURSIVE Decimal(_)
Decimal(n) ==
    IF n < 10 THEN <<48 + n>> ELSE Decimal(n \div 10) \o <<48 + (n % 10)>>

\* JVMConstant.__str__: the text of a Utf8 entry, "-- UNKNOWN <tag> --" for
\* every other entry.
Str(entry) ==
    IF entry.tag = CONSTANT_Utf8 THEN entry.bytes
    ELSE <<45, 45, 32, 85, 78, 75, 78, 79, 87, 78, 32>> \o Decimal(entry.tag)
         \o <<32, 45, 45>>

-----------------------------------------------------------------------------
\* The decoder's state.

\* The JVMClass instance before any field is assigned.
KlassInit ==
    [minor_version |-> 0, major_version |-> 0,
     constant_pool_count |-> 0, constant_pool |-> <<>>,
     access_flags |-> 0, this_class |-> 0, super_class |-> 0,
     interfaces_count |-> 0, interfaces |-> <<>>,
     fields_count |-> 0, fields |-> <<>>,
     methods_count |-> 0, methods |-> <<>>,
     attributes_count |-> 0, attributes |-> <<>>]

NoCode ==
    [max_stack |-> 0, max_locals |-> 0, code_length |-> [hi |-> 0, lo |-> 0],
     code |-> <<>>,
     exception_table_length |-> 0]

\* A constructor in progress.  kind is "field", "method" or "code" (a
\* JVMAttribute whose info is a JVMCodeAttr); head holds the fields the
\* constructor read first, code those of the JVMCodeAttr; start is the cursor
\* at which the constructor was entered.
Frame(kind, phase, start, head, count) ==
    [kind |-> kind, phase |-> phase, start |-> start, head |-> head,
     code |-> NoCode, exception_table |-> <<>>,
     attributes_count |-> count, attributes |-> <<>>]

Top == stack[Len(stack)]

Pop(s) == SubSeq(s, 1, Len(s) - 1)

\* An exception unwinds every constructor in progress: nothing is returned to
\* the caller.
Raise(e, p) ==
    /\ pc' = "failed"
    /\ err' = e
    /\ pos' = p
    /\ stack' = <<>>
    /\ UNCHANGED <<full, input, klass>>

\* The statements of JVMClass.__init__ in program order (lines 152-175); a
\* list comprehension is entered only when it has an element to build.
PcOrder ==
    <<"magic", "version", "cp_count", "constants", "flags", "if_count",
      "interfaces", "f_count", "fields", "m_count", "methods", "a_count",
      "attributes", "done">>

PcIndex(p) == CHOOSE i \in 1..Len(PcOrder) : PcOrder[i] = p

\* A statement order that leaves the pool out: what StagesInOrder rules out.
SuccessorSkipsPool(p) ==
    IF p = "version" THEN "flags" ELSE PcOrder[PcIndex(p) + 1]

\* The statement that follows p.
Successor(p) == PcOrder[PcIndex(p) + 1]

\* Where a constructor stands when a loop of n iterations has done k.
AfterLoop(k, n, inLoop, after) == IF k >= RangeLen(n) THEN after ELSE inLoop

-----------------------------------------------------------------------------
\* JVMClass.__init__, top level.

\* A magic test that accepts every value: what BadMagicStops rules out.
MagicAny(m) == TRUE

MagicOk(m) == m = MAGIC

\* validate_class_file_magic
ValidateMagic ==
    /\ pc = "magic"
    /\ \E m \in {U4(pos)} :
           IF ~m.ok THEN Raise("struct.error", m.pos)
           ELSE IF ~MagicOk(m.val) THEN Raise("Invalid class file", m.pos)
           ELSE /\ pc' = Successor(pc)
                /\ pos' = m.pos
                /\ UNCHANGED <<full, input, err, klass, stack>>

\* lines 154-155
ReadVersion ==
    /\ pc = "version"
    /\ \E r \in {ReadFields(pos, <<2, 2>>)} :
           IF ~r.ok THEN Raise("struct.error", r.pos)
           ELSE /\ klass' = [klass EXCEPT !.minor_version = r.vals[1],
                                          !.major_version = r.vals[2]]
                /\ pc' = Successor(pc)
                /\ pos' = r.pos
                /\ UNCHANGED <<full, input, err, stack>>

\* read_constant_pool, line 183
ReadConstantPoolCount ==
    /\ pc = "cp_count"
    /\ \E r \in {U2(pos)} :
           IF ~r.ok THEN Raise("struct.error", r.pos)
           ELSE /\ klass' = [klass EXCEPT !.constant_pool_count = r.val]
                /\ pc' = AfterLoop(0, r.val - 1, Successor(pc), Successor(Successor(pc)))
                /\ pos' = r.pos
                /\ UNCHANGED <<full, input, err, stack>>

\* read_constant_pool, line 185: one JVMConstant(self.klassFile)
JVMConstantInit ==
    /\ pc = "constants"
    /\ \E r \in {ParseConstant(pos)} :
           IF ~r.ok THEN Raise(r.err, r.pos)
           ELSE /\ klass' = [klass EXCEPT !.constant_pool = Append(@, r.entry)]
                /\ pc' = AfterLoop(Len(klass.constant_pool) + 1,
                                   klass.constant_pool_count - 1,
                                   pc, Successor(pc))
                /\ pos' = r.pos
                /\ UNCHANGED <<full, input, err, stack>>

\* lines 161-163
ReadFlagsAndLinkage ==
    /\ pc = "flags"
    /\ \E r \in {ReadFields(pos, <<2, 2, 2>>)} :
           IF ~r.ok THEN Raise("struct.error", r.pos)
           ELSE /\ klass' = [klass EXCEPT !.access_flags = r.vals[1],
                                          !.this_class = r.vals[2],
                                          !.super_class = r.vals[3]]
                /\ pc' = Successor(pc)
                /\ pos' = r.pos
                /\ UNCHANGED <<full, input, err, stack>>

\* line 165
ReadInterfacesCount ==
    /\ pc = "if_count"
    /\ \E r \in {U2(pos)} :
           IF ~r.ok THEN Raise("struct.error", r.pos)
           ELSE /\ klass' = [klass EXCEPT !.interfaces_count = r.val]
                /\ pc' = AfterLoop(0, r.val, Successor(pc), Successor(Successor(pc)))
                /\ pos' = r.pos
                /\ UNCHANGED <<full, input, err, stack>>

\* line 166: one element of the list
ReadInterface ==
    /\ pc = "interfaces"
    /\ \E r \in {U2(pos)} :
           IF ~r.ok THEN Raise("struct.error", r.pos)
           ELSE /\ klass' = [klass EXCEPT !.interfaces = Append(@, r.val)]
                /\ pc' = AfterLoop(Len(klass.interfaces) + 1,
                                   klass.interfaces_count,
                                   pc, Successor(pc))
                /\ pos' = r.pos
                /\ UNCHANGED <<full, input, err, stack>>

\* line 168
ReadFieldsCount ==
    /\ pc = "f_count"
    /\ \E r \in {U2(pos)} :
           IF ~r.ok THEN Raise("struct.error", r.pos)
           ELSE /\ klass' = [klass EXCEPT !.fields_count = r.val]
                /\ pc' = AfterLoop(0, r.val, Successor(pc), Successor(Successor(pc)))
                /\ pos' = r.pos
                /\ UNCHANGED <<full, input, err, stack>>

\* line 171
ReadMethodsCount ==
    /\ pc = "m_count"
    /\ \E r \in {U2(pos)} :
           IF ~r.ok THEN Raise("struct.error", r.pos)
           ELSE /\ klass' = [klass EXCEPT !.methods_count = r.val]
                /\ pc' = AfterLoop(0, r.val, Successor(pc), Successor(Successor(pc)))
                /\ pos' = r.pos
                /\ UNCHANGED <<full, input, err, stack>>

\* line 174
ReadAttributesCount ==
    /\ pc = "a_count"
    /\ \E r \in {U2(pos)} :
           IF ~r.ok THEN Raise("struct.error", r.pos)
           ELSE /\ klass' = [klass EXCEPT !.attributes_count = r.val]
                /\ pc' = AfterLoop(0, r.val, Successor(pc), Successor(Successor(pc)))
                /\ pos' = r.pos
                /\ UNCHANGED <<full, input, err, stack>>

-----------------------------------------------------------------------------
\* JVMField and JVMMethod.

\* Lines 133-136 / 142-145: the constructor reads its four fields and starts
\* its attribute list.
MemberInit(kind) ==
    \E r \in {ReadFields(pos, <<2, 2, 2, 2>>)} :
        IF ~r.ok THEN Raise("struct.error", r.pos)
        ELSE /\ stack' = Append(stack,
                    Frame(kind, "attrs", pos,
                          [access_flags |-> r.vals[1], name_index |-> r.vals[2],
                           descriptor_index |-> r.vals[3]],
                          r.vals[4]))
             /\ pos' = r.pos
             /\ UNCHANGED <<full, input, pc, err, klass>>

\* The finished JVMField / JVMMethod of a frame.
Member(f) ==
    [access_flags |-> f.head.access_flags, name_index |-> f.head.name_index,
     descriptor_index |-> f.head.descriptor_index,
     attributes_count |-> f.attributes_count, attributes |-> f.attributes]

\* The attribute list of the constructor on top of the stack is complete.
ListDone(f) ==
    f.phase = "attrs" /\ Len(f.attributes) >= RangeLen(f.attributes_count)

JVMFieldInit ==
    /\ pc = "fields"
    /\ stack = <<>>
    /\ MemberInit("field")

\* JVMField(self) returns: line 169 has one more element.
JVMFieldReturn ==
    /\ stack # <<>>
    /\ Top.kind = "field"
    /\ ListDone(Top)
    /\ klass' = [klass EXCEPT !.fields = Append(@, Member(Top))]
    /\ stack' = Pop(stack)
    /\ pc' = AfterLoop(Len(klass.fields) + 1, klass.fields_count,
                       pc, Successor(pc))
    /\ UNCHANGED <<full, input, pos, err>>

JVMMethodInit ==
    /\ pc = "methods"
    /\ stack = <<>>
    /\ MemberInit("method")

\* JVMMethod(self) returns: line 172 has one more element.
JVMMethodReturn ==
    /\ stack # <<>>
    /\ Top.kind = "method"
    /\ ListDone(Top)
    /\ klass' = [klass EXCEPT !.methods = Append(@, Member(Top))]
    /\ stack' = Pop(stack)
    /\ pc' = AfterLoop(Len(klass.methods) + 1, klass.methods_count,
                       pc, Successor(pc))
    /\ UNCHANGED <<full, input, pos, err>>

-----------------------------------------------------------------------------
\* JVMAttribute and JVMCodeAttr.

\* An attribute is expected next: by the class (line 175) or by the
\* constructor on top of the stack (lines 107, 137, 146).
ExpectsAttribute ==
    IF stack = <<>> THEN pc = "attributes"
    ELSE Top.phase = "attrs" /\ ~ListDone(Top)

\* The attribute a is returned to the list comprehension that asked for it:
\* the constructor on top of s, or the class when s is empty.
Deliver(s, a) ==
    IF s = <<>>
    THEN /\ klass' = [klass EXCEPT !.attributes = Append(@, a)]
         /\ stack' = s
         /\ pc' = AfterLoop(Len(klass.attributes) + 1, klass.attributes_count,
                            pc, Successor(pc))
    ELSE /\ stack' = [s EXCEPT ![Len(s)].attributes = Append(@, a)]
         /\ UNCHANGED <<klass, pc>>

\* A payload one byte short of its length: what OpaquePayloadExact rules out.
PayloadShort(p, attribute_length) ==
    U(p, IF AsSize(attribute_length) > 0 THEN AsSize(attribute_length) - 1 ELSE 0)

\* Line 121: the payload of an attribute that is not named "Code".
Payload(p, attribute_length) == U(p, AsSize(attribute_length))

\* JVMAttribute.__init__, lines 113-121.  For the name "Code" the constructor
\* goes on into JVMCodeAttr; otherwise it reads the payload and returns.
JVMAttributeInit ==
    /\ ExpectsAttribute
    /\ \E n \in {U2(pos)} :
         IF ~n.ok THEN Raise("struct.error", n.pos)
         ELSE \E e \in {PyIndex(klass.constant_pool, n.val - 1)} :
         IF ~e.ok THEN Raise("IndexError", n.pos)
         ELSE \E l \in {U4(n.pos)} :
         IF ~l.ok THEN Raise("struct.error", l.pos)
         ELSE IF Str(e.val) = CodeText
         THEN /\ stack' = Append(stack,
                     Frame("code", "header", pos,
                           [attribute_name_index |-> n.val,
                            attribute_name |-> e.val,
                            attribute_length |-> l.val],
                           0))
              /\ pos' = l.pos
              /\ UNCHANGED <<full, input, pc, err, klass>>
         ELSE \E b \in {Payload(l.pos, l.val)} :
         IF ~b.ok THEN Raise("struct.error", b.pos)
         ELSE /\ Deliver(stack,
                     [attribute_name_index |-> n.val,
                      attribute_name |-> e.val,
                      attribute_length |-> l.val,
                      info |-> [class |-> "tuple", items |-> b.val]])
              /\ pos' = b.pos
              /\ UNCHANGED <<full, input, err>>

\* JVMCodeAttr.__init__, lines 94-99.
JVMCodeAttrInit ==
    /\ stack # <<>>
    /\ Top.kind = "code"
    /\ Top.phase = "header"
    /\ \E r \in {ReadFields(pos, <<2, 2, 4>>)} :
         IF ~r.ok THEN Raise("struct.error", r.pos)
         ELSE \E c \in {U(r.pos, AsSize(r.vals[3]))} :
         IF ~c.ok THEN Raise("struct.error", c.pos)
         ELSE \E e \in {U2(c.pos)} :
         IF ~e.ok THEN Raise("struct.error", e.pos)
         ELSE /\ stack' = [stack EXCEPT
                     ![Len(stack)].code =
                         [max_stack |-> r.vals[1], max_locals |-> r.vals[2],
                          code_length |-> r.vals[3], code |-> c.val,
                          exception_table_length |-> e.val],
                     ![Len(stack)].phase = AfterLoop(0, e.val, "exc", "count")]
              /\ pos' = e.pos
              /\ UNCHANGED <<full, input, pc, err, klass>>

\* Lines 101-104: one record of the exception table.
ReadExceptionRecord ==
    /\ stack # <<>>
    /\ Top.phase = "exc"
    /\ \E r \in {ReadFields(pos, <<2, 2, 2, 2>>)} :
           IF ~r.ok THEN Raise("struct.error", r.pos)
           ELSE /\ stack' = [stack EXCEPT
                       ![Len(stack)].exception_table =
                           Append(@, [start_pc |-> r.vals[1],
                                      end_pc |-> r.vals[2],
                                      handler_pc |-> r.vals[3],
                                      catch_type |-> r.vals[4]]),
                       ![Len(stack)].phase =
                           AfterLoop(Len(Top.exception_table) + 1,
                                     Top.code.exception_table_length,
                                     "exc", "count")]
                /\ pos' = r.pos
                /\ UNCHANGED <<full, input, pc, err, klass>>

\* Line 106.
ReadCodeAttributesCount ==
    /\ stack # <<>>
    /\ Top.phase = "count"
    /\ \E r \in {U2(pos)} :
           IF ~r.ok THEN Raise("struct.error", r.pos)
           ELSE /\ stack' = [stack EXCEPT
                       ![Len(stack)].attributes_count = r.val,
                       ![Len(stack)].phase = "attrs"]
                /\ pos' = r.pos
                /\ UNCHANGED <<full, input, pc, err, klass>>

\* The finished JVMAttribute of a "code" frame, its info a JVMCodeAttr.
CodeAttribute(f) ==
    [attribute_name_index |-> f.head.attribute_name_index,
     attribute_name |-> f.head.attribute_name,
     attribute_length |-> f.head.attribute_length,
     info |-> [class |-> "JVMCodeAttr",
               max_stack |-> f.code.max_stack,
               max_locals |-> f.code.max_locals,
               code_length |-> f.code.code_length,
               code |-> f.code.code,
               exception_table_length |-> f.code.exception_table_length,
               exception_table |-> f.exception_table,
               attributes_count |-> f.attributes_count,
               attributes |-> f.attributes]]

\* JVMCodeAttr(klass) and the JVMAttribute around it return (lines 107, 119).
JVMCodeAttrReturn ==
    /\ stack # <<>>
    /\ Top.kind = "code"
    /\ ListDone(Top)
    /\ Deliver(Pop(stack), CodeAttribute(Top))
    /\ UNCHANGED <<full, input, pos, err>>

-----------------------------------------------------------------------------
\* The class files explored: byte sequences in the layout the decoder reads,
\* well-formed ones and ones that are wrong in one place.

B2(n) == <<n \div 256, n % 256>>
B4(n) == <<(n \div 16777216) % 256, (n \div 65536) % 256, (n \div 256) % 256,
           n % 256>>

RECURSIVE Concat(_)
Concat(ss) == IF ss = <<>> THEN <<>> ELSE Head(ss) \o Concat(Tail(ss))

Repeat(bs, k) == Concat([i \in 1..k |-> bs])

Utf8Bytes(raw) == <<CONSTANT_Utf8>> \o B2(Len(raw)) \o raw

Pool(entries) == [n |-> Len(entries), bytes |-> B2(Len(entries) + 1) \o Concat(entries)]

\* 1: "Code", 2: "Ab", 3: a Class entry (the last one).
PoolA == Pool(<< Utf8Bytes(CodeText), Utf8Bytes(<<65, 98>>),
                 <<CONSTANT_Class>> \o B2(2) >>)

\* 1: "Ab", 2: a Long entry, 3: "Code" (the last one).
PoolB == Pool(<< Utf8Bytes(<<65, 98>>),
                 <<CONSTANT_Long>> \o B4(1) \o B4(2),
                 Utf8Bytes(CodeText) >>)

\* One entry of every kind, the Utf8 texts with sequences of 1 to 4 bytes.
PoolAll ==
    Pool(<< <<CONSTANT_Class>> \o B2(2),
            Utf8Bytes(<<65, 195, 169, 226, 130, 172, 240, 159, 152, 128>>),
            <<CONSTANT_Fieldref>> \o B2(1) \o B2(5),
            <<CONSTANT_Methodref>> \o B2(1) \o B2(5),
            <<CONSTANT_NameAndType>> \o B2(2) \o B2(2),
            <<CONSTANT_InterfaceMethodref>> \o B2(1) \o B2(5),
            <<CONSTANT_String>> \o B2(2),
            <<CONSTANT_Integer>> \o B4(7),
            <<CONSTANT_Float>> \o B4(1065353216),
            <<CONSTANT_Long>> \o B4(0) \o B4(9),
            <<CONSTANT_Double>> \o B4(1072693248) \o B4(0),
            <<CONSTANT_MethodHandle>> \o <<1>> \o B2(3),
            <<CONSTANT_MethodType>> \o B2(2),
            <<CONSTANT_InvokeDynamic>> \o B2(0) \o B2(5),
            Utf8Bytes(<<>>) >>)

\* Tags no case of the match names: 2 between two entries, 0 as the last entry.
PoolUnknown == Pool(<< Utf8Bytes(CodeText), <<2>>, Utf8Bytes(<<65, 98>>), <<0>> >>)

\* Bytes that are not UTF-8: an overlong form, a surrogate, a lone lead byte.
BadUtf8Pools ==
    { Pool(<< Utf8Bytes(raw) >>) :
        raw \in { <<192, 128>>, <<237, 160, 128>>, <<65, 194>>, <<128>>,
                  <<244, 144, 128, 128>>, <<224, 159, 191>> } }

\* constant_pool_count 1 (no entry) and 0.
PoolEmpty == Pool(<< >>)
PoolZero == [n |-> 0, bytes |-> B2(0)]

AttributeBytes(name_index, declared, body) == B2(name_index) \o B4(declared) \o body

OpaqueBody(n) == Repeat(<<171>>, n)

\* The body of a Code attribute: one byte of code, e exception records and k
\* copies of the nested attribute.
CodeBody(e, k, nested) ==
    B2(2) \o B2(1) \o B4(1) \o <<177>> \o B2(e)
    \o Repeat(B2(0) \o B2(1) \o B2(0) \o B2(3), e)
    \o B2(k) \o Repeat(nested, k)

\* A well-formed attribute: opaque at depth 0, else a Code attribute holding
\* one attribute of depth d - 1.
RECURSIVE Nested(_, _, _)
Nested(d, codeIdx, otherIdx) ==
    IF d = 0 THEN AttributeBytes(otherIdx, 1, OpaqueBody(1))
    ELSE LET body == CodeBody(0, 1, Nested(d - 1, codeIdx, otherIdx))
         IN  AttributeBytes(codeIdx, Len(body), body)

Bodies(codeIdx, otherIdx) ==
    { OpaqueBody(n) : n \in 0..MaxPayload }
    \cup { CodeBody(e, 0, <<>>) : e \in 0..MaxCount }
    \cup { CodeBody(0, k, Nested(d, codeIdx, otherIdx)) :
             k \in 1..MaxCount, d \in 0..MaxDepth }

\* Every name index from 0 to one past the pool, every body, the declared
\* length right or one too large.
TopAttributes(pool, codeIdx, otherIdx) ==
    { AttributeBytes(i, Len(b) + dl, b) :
        i \in 0..(pool.n + 1), dl \in {0, 1}, b \in Bodies(codeIdx, otherIdx) }

MemberBytes(k, attrs) == B2(1) \o B2(3) \o B2(4) \o B2(k) \o attrs

ClassFile(magic, pool, nif, nf, fields, nm, methods, na, attrs) ==
    magic \o B2(0) \o B2(52) \o pool.bytes
    \o B2(33) \o B2(3) \o B2(0)
    \o B2(nif) \o Repeat(B2(3), nif)
    \o B2(nf) \o fields
    \o B2(nm) \o methods
    \o B2(na) \o attrs

GoodMagic == B2(MAGIC.hi) \o B2(MAGIC.lo)

Bare(magic, pool) == ClassFile(magic, pool, 0, 0, <<>>, 0, <<>>, 0, <<>>)

\* One file per pool.
PoolFiles ==
    { Bare(GoodMagic, p) :
        p \in {PoolA, PoolB, PoolAll, PoolUnknown, PoolEmpty, PoolZero}
              \cup BadUtf8Pools }

\* Files that do not start with the magic number, or are too short to hold it.
MagicFiles ==
    { Bare(m, PoolA) : m \in { <<202, 254, 186, 191>>, <<0, 0, 0, 0>>,
                               <<254, 202, 190, 186>> } }
    \cup { <<>>, <<202, 254, 186>>, <<202, 254, 186, 191>> }

\* i interfaces, f fields, m methods and a class attributes, each member with
\* no attribute and each attribute an empty opaque one.
Counted(i, f, m, a) ==
    ClassFile(GoodMagic, PoolA, i, f, Repeat(MemberBytes(0, <<>>), f),
              m, Repeat(MemberBytes(0, <<>>), m),
              a, Repeat(AttributeBytes(2, 0, <<>>), a))

CountFiles ==
    { Counted(k, k, k, k) : k \in 0..MaxCount }
    \cup { Counted(k, 0, 0, 0) : k \in 1..MaxCount }
    \cup { Counted(0, k, 0, 0) : k \in 1..MaxCount }
    \cup { Counted(0, 0, k, 0) : k \in 1..MaxCount }
    \cup { Counted(0, 0, 0, k) : k \in 1..MaxCount }

\* One attribute, on a field, on a method or on the class.
WithAttribute(pool, where, a) ==
    IF where = "field"
    THEN ClassFile(GoodMagic, pool, 0, 1, MemberBytes(1, a), 0, <<>>, 0, <<>>)
    ELSE IF where = "method"
    THEN ClassFile(GoodMagic, pool, 0, 0, <<>>, 1, MemberBytes(1, a), 0, <<>>)
    ELSE ClassFile(GoodMagic, pool, 0, 0, <<>>, 0, <<>>, 1, a)

AttributeFiles ==
    { WithAttribute(PoolA, "method", a) : a \in TopAttributes(PoolA, 1, 2) }
    \cup { WithAttribute(PoolB, "class", a) : a \in TopAttributes(PoolB, 3, 1) }
    \cup { WithAttribute(PoolA, w, AttributeBytes(i, Len(b), b)) :
              w \in {"field", "class"}, i \in {1, 2}, b \in Bodies(1, 2) }

Files == PoolFiles \cup MagicFiles \cup CountFiles \cup AttributeFiles

-----------------------------------------------------------------------------
\* The specification.

Init ==
    /\ full \in Files
    /\ input = full
    /\ pos = 0
    /\ pc = "magic"
    /\ err = ""
    /\ klass = KlassInit
    /\ stack = <<>>

\* JVMClass(path) on a copy of a file that was decoded to its last byte, cut
\* before that byte: a new JVMClassFile with the cursor at 0 and a new JVMClass.
Truncate ==
    /\ pc = "done"
    /\ input = full
    /\ pos = Len(full)
    /\ \E cut \in 0..(Len(full) - 1) : input' = SubSeq(full, 1, cut)
    /\ pos' = 0
    /\ pc' = "magic"
    /\ err' = ""
    /\ klass' = KlassInit
    /\ stack' = <<>>
    /\ UNCHANGED full

\* One step of a decode.
Decode ==
    \/ ValidateMagic
    \/ ReadVersion
    \/ ReadConstantPoolCount
    \/ JVMConstantInit
    \/ ReadFlagsAndLinkage
    \/ ReadInterfacesCount
    \/ ReadInterface
    \/ ReadFieldsCount
    \/ JVMFieldInit
    \/ JVMFieldReturn
    \/ ReadMethodsCount
    \/ JVMMethodInit
    \/ JVMMethodReturn
    \/ ReadAttributesCount
    \/ JVMAttributeInit
    \/ JVMCodeAttrInit
    \/ ReadExceptionRecord
    \/ ReadCodeAttributesCount
    \/ JVMCodeAttrReturn

Next == Decode \/ Truncate

Spec == Init /\ [][Next]_vars

\* The decode is one thread of control that runs until it returns or raises.
FairSpec == Spec /\ WF_vars(Decode)

-----------------------------------------------------------------------------
\* Properties.

Terminated == pc \in {"done", "failed"}

\* The name index the attribute constructor is about to read (when two bytes
\* are left to read it from).
NextNameIndex == U2(pos).val

\* The attribute the last JVMAttributeInit step returned to its caller.
Delivered ==
    IF stack = <<>>
    THEN klass'.attributes[Len(klass'.attributes)]
    ELSE stack'[Len(stack')].attributes[Len(stack'[Len(stack')].attributes)]

\* C1: a constant-pool tag that is none of the known tags makes the decode
\* fail: no entry is stored for it and decoding does not go on at the next
\* byte.
UnknownTagFails ==
    [][ (JVMConstantInit /\ U1(pos).ok /\ U1(pos).val \notin KnownTags)
            => (pc' = "failed" /\ klass'.constant_pool = klass.constant_pool)
      ]_vars

\* C2: a Code attribute whose decoder consumed a byte count other than the
\* declared attribute_length makes the decode fail instead of going on at the
\* cursor it reached.
CodeLengthChecked ==
    [][ (JVMCodeAttrReturn
            /\ pos - (Top.start + 6) # AsSize(Top.head.attribute_length))
            => pc' = "failed"
      ]_vars

\* C3: an attribute name index of 0, or one past the number of pool entries,
\* makes the decode fail; index 0 resolves to no stored entry.
NameIndexInRange ==
    [][ (JVMAttributeInit /\ U2(pos).ok
            /\ (NextNameIndex = 0 \/ NextNameIndex > Len(klass.constant_pool)))
            => pc' = "failed"
      ]_vars

\* C4: an attribute whose name index designates a pool entry that is not a
\* Utf8 entry makes the decode fail; it is never decoded as an opaque
\* attribute.
NameMustBeUtf8 ==
    [][ (JVMAttributeInit /\ U2(pos).ok
            /\ NextNameIndex \in 1..Len(klass.constant_pool)
            /\ klass.constant_pool[NextNameIndex].tag # CONSTANT_Utf8)
            => pc' = "failed"
      ]_vars

\* C5: when the first 4 bytes are not 0xCAFEBABE the decode fails at the magic
\* stage with "Invalid class file", the cursor stays right after those 4
\* bytes, and nothing of the class has been read.
BadMagicStops ==
    (Len(input) >= 4 /\ Wide(SubSeq(input, 1, 4)) # MAGIC /\ pc # "magic")
        => /\ pc = "failed"
           /\ err = "Invalid class file"
           /\ pos = 4
           /\ klass = KlassInit
           /\ stack = <<>>

BadMagicSeen ==
    /\ Len(input) > 4
    /\ Wide(SubSeq(input, 1, 4)) # MAGIC
    /\ pc = "failed"
    /\ pos = 4

\* C6: the decode of a strict prefix of a file that decodes to its last byte
\* never completes: it ends in struct.error, raised by the read that found
\* fewer bytes than it asked for, with the whole prefix consumed.
TruncationFails ==
    input # full
        => /\ pc # "done"
           /\ pc = "failed" => (err = "struct.error" /\ pos = Len(input))

\* A prefix cut inside the attributes of a method, after the pool was read.
TruncationSeen ==
    /\ input # full
    /\ pc = "failed"
    /\ err = "struct.error"
    /\ klass.methods_count > 0
    /\ Len(klass.methods) < klass.methods_count

\* C7: an attribute whose name is not "Code" is stored with a payload of
\* exactly attribute_length bytes, the bytes that follow its length field, and
\* leaves the cursor 2 + 4 + attribute_length bytes past its start.
OpaquePayloadExact ==
    [][ (JVMAttributeInit /\ pc' # "failed" /\ Len(stack') = Len(stack))
            => /\ Str(Delivered.attribute_name) # CodeText
               /\ Delivered.info.class = "tuple"
               /\ Len(Delivered.info.items) = AsSize(Delivered.attribute_length)
               /\ Delivered.info.items =
                      SubSeq(input, pos + 7,
                             pos + 6 + AsSize(Delivered.attribute_length))
               /\ pos' = pos + 2 + 4 + AsSize(Delivered.attribute_length)
      ]_vars

\* A decoded class whose attribute, named by a Utf8 entry other than "Code",
\* was stored with the one byte of payload its length declares.
OpaqueSeen ==
    /\ pc = "done"
    /\ \E i \in 1..Len(klass.attributes) :
          /\ klass.attributes[i].attribute_name.tag = CONSTANT_Utf8
          /\ klass.attributes[i].info.class = "tuple"
          /\ AsSize(klass.attributes[i].attribute_length) = 1
          /\ Len(klass.attributes[i].info.items) = 1

\* Every attribute list below a holds as many attributes as its count says.
RECURSIVE AttributeCountsOk(_)
AttributeCountsOk(a) ==
    a.info.class = "JVMCodeAttr"
        => /\ Len(a.info.attributes) = a.info.attributes_count
           /\ \A i \in 1..Len(a.info.attributes) :
                  AttributeCountsOk(a.info.attributes[i])

ListCountsOk(count, attrs) ==
    /\ Len(attrs) = count
    /\ \A i \in 1..Len(attrs) : AttributeCountsOk(attrs[i])

MemberCountsOk ==
    /\ Len(klass.interfaces) = klass.interfaces_count
    /\ Len(klass.fields) = klass.fields_count
    /\ Len(klass.methods) = klass.methods_count
    /\ \A i \in 1..Len(klass.fields) :
          ListCountsOk(klass.fields[i].attributes_count,
                       klass.fields[i].attributes)
    /\ \A i \in 1..Len(klass.methods) :
          ListCountsOk(klass.methods[i].attributes_count,
                       klass.methods[i].attributes)
    /\ ListCountsOk(klass.attributes_count, klass.attributes)

\* C8, as stated: after a successful decode every counted sequence holds as
\* many elements as its count says, the pool constant_pool_count - 1.
CountsMatch ==
    pc = "done"
        => /\ Len(klass.constant_pool) = klass.constant_pool_count - 1
           /\ MemberCountsOk

\* C8, amended: the same, the pool holding constant_pool_count - 1 entries
\* when constant_pool_count is at least 1 and none when it is 0.
CountsMatchFromOne ==
    pc = "done"
        => /\ klass.constant_pool_count >= 1
                => Len(klass.constant_pool) = klass.constant_pool_count - 1
           /\ klass.constant_pool_count = 0 => klass.constant_pool = <<>>
           /\ MemberCountsOk

\* A decoded class with several interfaces, fields, methods and attributes, and
\* one with a Long entry in its pool and a Code attribute that has attributes.
CountsSeen ==
    /\ pc = "done"
    /\ \/ /\ Len(klass.interfaces) >= 2
          /\ Len(klass.fields) >= 2
          /\ Len(klass.methods) >= 2
          /\ Len(klass.attributes) >= 2
       \/ /\ \E i \in 1..Len(klass.constant_pool) :
                 klass.constant_pool[i].tag = CONSTANT_Long
          /\ \E i \in 1..Len(klass.attributes) :
                 /\ klass.attributes[i].info.class = "JVMCodeAttr"
                 /\ klass.attributes[i].info.attributes_count >= 2

\* The stage of JVMClass.__init__ a position belongs to: magic, version,
\* constant pool, flags and linkage, interfaces, fields, methods, class
\* attributes, complete.
Stage(p) ==
    IF p = "magic" THEN 1
    ELSE IF p = "version" THEN 2
    ELSE IF p \in {"cp_count", "constants"} THEN 3
    ELSE IF p = "flags" THEN 4
    ELSE IF p \in {"if_count", "interfaces"} THEN 5
    ELSE IF p \in {"f_count", "fields"} THEN 6
    ELSE IF p \in {"m_count", "methods"} THEN 7
    ELSE IF p \in {"a_count", "attributes"} THEN 8
    ELSE IF p = "done" THEN 9
    ELSE 0

\* C9: within a decode the stages follow one another in the fixed order, none
\* skipped, none repeated, none entered after a failure; every pool lookup of
\* an attribute happens when the pool loop is over, and the pool does not
\* change after its stage.
StagesInOrder ==
    [][ (vars' # vars /\ input' = input)
            => /\ ~Terminated
               /\ pc' = "failed" \/ Stage(pc') \in {Stage(pc), Stage(pc) + 1}
               /\ Stage(pc) > 3 => klass'.constant_pool = klass.constant_pool
               /\ JVMAttributeInit
                      => /\ Stage(pc) > 3
                         /\ Len(klass.constant_pool)
                                >= klass.constant_pool_count - 1
      ]_vars

\* An attribute nested in the Code attribute of a method is being parsed, the
\* pool complete.
NestedLookupSeen ==
    /\ pc = "methods"
    /\ Len(stack) >= 2
    /\ Top.kind = "code"
    /\ Top.attributes # <<>>
    /\ Len(klass.constant_pool) = 3

\* C10: every decode stops, complete or failed; every element of a counted
\* loop consumes at least one byte and every attribute at least 6.
DecodeStops ==
    /\ [][ /\ (JVMConstantInit \/ ReadInterface \/ JVMFieldInit
                  \/ JVMMethodInit \/ ReadExceptionRecord) /\ pc' # "failed"
                  => pos' >= pos + 1
           /\ JVMAttributeInit /\ pc' # "failed" => pos' >= pos + 6
         ]_vars
    /\ (pc = "magic") ~> Terminated

\* The method loop, with elements left to read by its count, stopped on the
\* end of the input.
ExhaustedSeen ==
    /\ pc = "failed"
    /\ err = "struct.error"
    /\ pos = Len(input)
    /\ klass.methods_count > Len(klass.methods)
    /\ klass.methods # <<>> \/ klass.constant_pool # <<>>

====
